---- MODULE Spec2Model ----
(***************************************************************************)
(* Model of src/server.js: the socket.io connection handler with its       *)
(* three tracking maps (userConnections, socketUsers, userRoles), the      *)
(* per-socket event handlers and the REST notification endpoints.          *)
(*                                                                         *)
(* Node runs every handler to completion on one event loop, so each        *)
(* handler is one atomic action.  `out` holds the events the last handler  *)
(* emitted (a bag of messages, one per receiving socket) and `last` the    *)
(* handler that ran, its inputs and its HTTP result.                       *)
(***************************************************************************)
EXTENDS Bags, FiniteSets, Integers, Sequences, TLC

VARIABLES
    userConnections,  \* Map userId -> socketId            (server.js:19)
    userRoles,        \* Map userId -> role                (server.js:20)
    socketUsers,      \* Map socketId -> userId            (server.js:21)
    sockets,          \* connected sockets: closure userId, role and socket.rooms
    nextSocket,       \* the id the next accepted socket gets (ids are never reused)
    running,          \* FALSE once an uncaught exception has ended the process
    out,              \* bag of messages emitted by the last handler
    last,             \* the last handler, its inputs, and its result
    dropped           \* history: userIds with a handled disconnect and no connect since

vars == <<userConnections, userRoles, socketUsers, sockets, nextSocket,
          running, out, last, dropped>>

----------------------------------------------------------------------------
(* Bounds and input domains *)

MaxSockets == 3

Users == {"u1", "u2"}
ChatRooms == {"r1"}
Events == {"evt"}

\* A field the client or caller left out (undefined / empty: falsy in JS).
Absent == ""
\* The whole payload object left out (socket.emit("call:offer") with no data).
NoData == [none |-> TRUE]

SocketIds == 1 .. MaxSockets
NoSocket == 0

\* `guest-${socket.id}`
GuestId(s) == "guest-" \o ToString(s)

UserIds == Users \cup {GuestId(s) : s \in SocketIds}

\* socket.handshake.auth as clients present it: the same user under two roles,
\* a second user, roles that differ only in case, and a client that presents
\* neither field.
Handshakes ==
    { [userId |-> "u1", role |-> "Driver"],
      [userId |-> "u1", role |-> "driver"],
      [userId |-> "u2", role |-> "Driver"],
      [userId |-> Absent, role |-> Absent] }

\* payloads of the chat events and of the signaling events; `target` is the
\* receiverId / callerId / targetUserId field, `body` the offer / answer /
\* candidate
ChatData == [chatRoomId : ChatRooms] \cup {NoData}
CallData ==
    {[callId |-> "c1", target |-> u, body |-> "X"] : u \in Users \cup {GuestId(1)}}
    \cup {[callId |-> "c2", target |-> u, body |-> "Y"] : u \in Users \cup {GuestId(1)}}
    \cup {NoData}
\* bodies of POST /notify/user
NotifyUserBodies ==
    [userId : Users \cup {GuestId(1), Absent}, event : Events \cup {Absent},
     data : {"X"}]

\* longest userIds array of POST /notify/users
MaxUserIds == 2

\* Array.isArray(userIds) holds: the arrays, the empty one and those that
\* repeat an id included
UserIdArrays ==
    UNION {[1 .. n -> Users \cup {GuestId(1)}] : n \in 0 .. MaxUserIds}

\* bodies of POST /notify/users: isArray is userIds && Array.isArray(userIds)
NotifyUsersBodies ==
    {[userIds |-> ids, isArray |-> TRUE, event |-> "evt", data |-> "X"] :
        ids \in UserIdArrays}
    \cup {[userIds |-> <<>>, isArray |-> FALSE, event |-> "evt", data |-> "X"],
          [userIds |-> <<"u1">>, isArray |-> TRUE, event |-> Absent,
           data |-> "X"]}

\* bodies of POST /notify/role and of POST /notify/all
NotifyRoleBodies ==
    [role : {"Driver", "driver", "DRIVER", "Guest", Absent},
     event : Events, data : {"X"}]
    \cup {[role |-> "Driver", event |-> Absent, data |-> "X"]}
NotifyAllBodies == [event : Events \cup {Absent}, data : {"X"}]

\* bodies of POST /notify/chat/message: given is the truthiness of
\* recipientIds, isArray whether it has forEach; an empty array is truthy
ChatMessageBodies ==
    {[chatRoomId |-> "r1", recipientIds |-> ids, given |-> TRUE,
      isArray |-> TRUE, messageData |-> "X"] : ids \in UserIdArrays}
    \cup {[chatRoomId |-> Absent, recipientIds |-> <<"u1">>, given |-> TRUE,
           isArray |-> TRUE, messageData |-> "X"],
          [chatRoomId |-> "r1", recipientIds |-> <<"u1">>, given |-> TRUE,
           isArray |-> TRUE, messageData |-> Absent],
          [chatRoomId |-> "r1", recipientIds |-> <<>>, given |-> FALSE,
           isArray |-> FALSE, messageData |-> "X"],
          [chatRoomId |-> "r1", recipientIds |-> <<>>, given |-> TRUE,
           isArray |-> FALSE, messageData |-> "X"]}

\* String.prototype.toLowerCase on the role strings in use
ToLowerCase(str) ==
    CASE str = "Driver" -> "driver"
      [] str = "DRIVER" -> "driver"
      [] str = "Guest" -> "guest"
      [] OTHER -> str

----------------------------------------------------------------------------
(* JavaScript Map operations *)

MapHas(m, k) == k \in DOMAIN m
MapSet(m, k, v) == [x \in (DOMAIN m) \cup {k} |-> IF x = k THEN v ELSE m[x]]
MapDelete(m, k) == [x \in (DOMAIN m) \ {k} |-> m[x]]
EmptyMap == [x \in {} |-> Absent]

----------------------------------------------------------------------------
(* socket.io rooms and emits *)

RoleRoom(role) == <<"role", role>>
UserRoom(userId) == <<"user", userId>>
ChatRoom(chatRoomId) == <<"chat", chatRoomId>>

Connected == DOMAIN sockets

\* io.to(room): the connected sockets that joined the room
SocketsInRoom(room) == {s \in Connected : room \in sockets[s].rooms}
\* Faulty variant of SocketsWithId: io.emit in place of io.to(socketId).emit.
SocketsWithIdAll(socketId) == Connected

\* io.to(socketId): every socket is alone in the room named by its own id
SocketsWithId(socketId) == {s \in Connected : s = socketId}

Msg(to, ev, callId, userId, body, error) ==
    [to |-> to, ev |-> ev, callId |-> callId, userId |-> userId,
     body |-> body, error |-> error]

\* one emit call: the event reaches every socket of `targets` once
Emit(targets, ev, callId, userId, body, error) ==
    SetToBag({Msg(t, ev, callId, userId, body, error) : t \in targets})

\* what `last` records: the handler, the socket it ran on (NoSocket for a
\* REST endpoint), its input and its result
Op(op, socket, data, res) ==
    [op |-> op, socket |-> socket, data |-> data, res |-> res]
NoResult == [none |-> TRUE]
HttpResult(status, delivered) == [status |-> status, delivered |-> delivered]

----------------------------------------------------------------------------
Init ==
    /\ userConnections = EmptyMap
    /\ userRoles = EmptyMap
    /\ socketUsers = EmptyMap
    /\ sockets = EmptyMap
    /\ nextSocket = 1
    /\ running = TRUE
    /\ out = EmptyBag
    /\ last = Op("init", NoSocket, NoData, NoResult)
    /\ dropped = {}

\* An exception thrown inside a socket event handler is caught by nobody:
\* the process ends, and with it the three maps and every socket.
Crash(op, s) ==
    /\ running' = FALSE
    /\ userConnections' = EmptyMap
    /\ userRoles' = EmptyMap
    /\ socketUsers' = EmptyMap
    /\ sockets' = EmptyMap
    /\ dropped' = {}
    /\ out' = EmptyBag
    /\ last' = Op(op, NoSocket, NoData, NoResult)
    /\ UNCHANGED nextSocket

\* Faulty variant of Register: a userId that is already registered keeps its
\* first socket and role.
RegisterKeepsFirst(s, userId, role) ==
    /\ userConnections' = IF MapHas(userConnections, userId)
                          THEN userConnections
                          ELSE MapSet(userConnections, userId, s)
    /\ socketUsers' = MapSet(socketUsers, s, userId)
    /\ userRoles' = IF MapHas(userRoles, userId)
                    THEN userRoles
                    ELSE MapSet(userRoles, userId, role)

\* "Track connection": the three Map.set calls of the connection handler
Register(s, userId, role) ==
    /\ userConnections' = MapSet(userConnections, userId, s)
    /\ socketUsers' = MapSet(socketUsers, s, userId)
    /\ userRoles' = MapSet(userRoles, userId, role)

\* io.on("connection"): auth is socket.handshake.auth
Connect(auth) ==
    LET s == nextSocket
        userId == IF auth.userId = Absent THEN GuestId(s) ELSE auth.userId
        role == IF auth.role = Absent THEN "Guest" ELSE auth.role
    IN  /\ running
        /\ nextSocket <= MaxSockets
        /\ Register(s, userId, role)
        /\ sockets' = MapSet(sockets, s,
              [userId |-> userId, role |-> role,
               rooms |-> {RoleRoom(role), UserRoom(userId)}])
        /\ nextSocket' = nextSocket + 1
        /\ out' = EmptyBag
        /\ last' = Op("connect", s, auth,
                      [userId |-> userId, role |-> role,
                       prev |-> IF MapHas(userConnections, userId)
                                THEN userConnections[userId] ELSE NoSocket])
        /\ dropped' = dropped \ {userId}
        /\ UNCHANGED running

\* Faulty variant of Unregister: the forward entry is never deleted.
UnregisterKeepsForward(s) ==
    /\ userConnections' = userConnections
    /\ socketUsers' = MapDelete(socketUsers, s)
    /\ userRoles' = IF MapHas(socketUsers, s)
                    THEN MapDelete(userRoles, socketUsers[s])
                    ELSE userRoles

\* Variant of Unregister that leaves the forward entries alone when they
\* already belong to a newer socket of the same user.
UnregisterIfCurrent(s) ==
    LET known == MapHas(socketUsers, s)
        current == known /\ MapHas(userConnections, socketUsers[s])
                         /\ userConnections[socketUsers[s]] = s
    IN  /\ userConnections' = IF current
                              THEN MapDelete(userConnections, socketUsers[s])
                              ELSE userConnections
        /\ socketUsers' = MapDelete(socketUsers, s)
        /\ userRoles' = IF current
                        THEN MapDelete(userRoles, socketUsers[s])
                        ELSE userRoles

\* the three Map.delete calls of the disconnect handler
Unregister(s) ==
    LET known == MapHas(socketUsers, s)
        \* socketUsers.get(socket.id); deleting the key undefined does nothing
        disconnectedUserId == IF known THEN socketUsers[s] ELSE Absent
    IN  /\ userConnections' = IF known
                              THEN MapDelete(userConnections, disconnectedUserId)
                              ELSE userConnections
        /\ socketUsers' = MapDelete(socketUsers, s)
        /\ userRoles' = IF known
                        THEN MapDelete(userRoles, disconnectedUserId)
                        ELSE userRoles

\* socket.on("disconnect"): socket.io has already taken the socket out of all
\* its rooms when the handler runs.
Disconnect(s) ==
    /\ running
    /\ s \in Connected
    /\ Unregister(s)
    /\ sockets' = MapDelete(sockets, s)
    /\ out' = EmptyBag
    /\ last' = Op("disconnect", s, NoData,
                  [userId |-> IF MapHas(socketUsers, s)
                              THEN socketUsers[s] ELSE Absent])
    /\ dropped' = dropped \cup {sockets[s].userId}
    /\ UNCHANGED <<nextSocket, running>>

\* Faulty variant of SocketTo: io.to(room) in place of socket.to(room).
SocketToWithSender(members, s, room) ==
    {t \in DOMAIN members : room \in members[t].rooms}

\* socket.to(room): the sockets in the room, the sending socket excluded;
\* members is the room membership when emit is called
SocketTo(members, s, room) ==
    {t \in DOMAIN members : room \in members[t].rooms /\ t # s}

\* socket.on("chat:join-room")
ChatJoinRoom(s, data) ==
    /\ running
    /\ s \in Connected
    /\ IF data = NoData
       THEN Crash("chat:join-room", s)
       ELSE LET room == ChatRoom(data.chatRoomId)
                joined == [sockets EXCEPT ![s].rooms = @ \cup {room}]
            IN  /\ sockets' = joined
                /\ out' = Emit(SocketTo(joined, s, room),
                               "chat:user-joined", Absent, sockets[s].userId,
                               data.chatRoomId, Absent)
                /\ last' = Op("chat:join-room", s, data, NoResult)
                /\ UNCHANGED <<userConnections, userRoles, socketUsers,
                               nextSocket, running, dropped>>

\* socket.on("chat:leave-room")
ChatLeaveRoom(s, data) ==
    /\ running
    /\ s \in Connected
    /\ IF data = NoData
       THEN Crash("chat:leave-room", s)
       ELSE LET room == ChatRoom(data.chatRoomId)
                left == [sockets EXCEPT ![s].rooms = @ \ {room}]
            IN  /\ sockets' = left
                /\ out' = Emit(SocketTo(left, s, room),
                               "chat:user-left", Absent, sockets[s].userId,
                               data.chatRoomId, Absent)
                /\ last' = Op("chat:leave-room", s, data, NoResult)
                /\ UNCHANGED <<userConnections, userRoles, socketUsers,
                               nextSocket, running, dropped>>

\* socket.on("chat:typing")
ChatTyping(s, data) ==
    /\ running
    /\ s \in Connected
    /\ IF data = NoData
       THEN Crash("chat:typing", s)
       ELSE /\ out' = Emit(SocketTo(sockets, s, ChatRoom(data.chatRoomId)),
                           "chat:user-typing", Absent, sockets[s].userId,
                           data.chatRoomId, Absent)
            /\ last' = Op("chat:typing", s, data, NoResult)
            /\ UNCHANGED <<userConnections, userRoles, socketUsers, sockets,
                           nextSocket, running, dropped>>

\* socket.on("chat:stop-typing")
ChatStopTyping(s, data) ==
    /\ running
    /\ s \in Connected
    /\ IF data = NoData
       THEN Crash("chat:stop-typing", s)
       ELSE /\ out' = Emit(SocketTo(sockets, s, ChatRoom(data.chatRoomId)),
                           "chat:user-stop-typing", Absent, sockets[s].userId,
                           data.chatRoomId, Absent)
            /\ last' = Op("chat:stop-typing", s, data, NoResult)
            /\ UNCHANGED <<userConnections, userRoles, socketUsers, sockets,
                           nextSocket, running, dropped>>

\* socket.on("ping"): pong {timestamp, userId} to the sending socket
Ping(s) ==
    /\ running
    /\ s \in Connected
    /\ out' = Emit({s}, "pong", Absent, sockets[s].userId, Absent, Absent)
    /\ last' = Op("ping", s, NoData, NoResult)
    /\ UNCHANGED <<userConnections, userRoles, socketUsers, sockets,
                   nextSocket, running, dropped>>

\* The three signaling handlers change no map and no room.
Relayed(op, s, data, emitted) ==
    /\ out' = emitted
    /\ last' = Op(op, s, data, NoResult)
    /\ UNCHANGED <<userConnections, userRoles, socketUsers, sockets,
                   nextSocket, running, dropped>>

\* Faulty variant of IsSelf: the validation is missing.
IsSelfNever(target, userId) == FALSE

\* "VALIDATION: Don't send ... back to sender": target === userId
IsSelf(target, userId) == target = userId

\* Faulty variant of CallError: io.emit in place of socket.emit.
CallErrorToAll(s, callId, error) ==
    Emit(Connected, "call:error", callId, Absent, Absent, error)

\* socket.emit("call:error", {callId, error}): to the sending socket alone
CallError(s, callId, error) ==
    Emit({s}, "call:error", callId, Absent, Absent, error)

\* socket.on("call:offer"): data = {callId, receiverId, offer}
CallOffer(s, data) ==
    /\ running
    /\ s \in Connected
    /\ IF data = NoData
       THEN Crash("call:offer", s)
       ELSE LET userId == sockets[s].userId
                receiverId == data.target
            IN  IF IsSelf(receiverId, userId)
                THEN Relayed("call:offer", s, data,
                         CallError(s, data.callId, "Cannot call yourself"))
                ELSE IF MapHas(userConnections, receiverId)
                THEN Relayed("call:offer", s, data,
                         Emit(SocketsWithId(userConnections[receiverId]),
                              "call:offer", data.callId, userId, data.body,
                              Absent))
                ELSE Relayed("call:offer", s, data,
                         CallError(s, data.callId, "Receiver not connected"))

\* socket.on("call:answer"): data = {callId, callerId, answer}
CallAnswer(s, data) ==
    /\ running
    /\ s \in Connected
    /\ IF data = NoData
       THEN Crash("call:answer", s)
       ELSE LET userId == sockets[s].userId
                callerId == data.target
            IN  IF IsSelf(callerId, userId)
                THEN Relayed("call:answer", s, data, EmptyBag)
                ELSE IF MapHas(userConnections, callerId)
                THEN Relayed("call:answer", s, data,
                         Emit(SocketsWithId(userConnections[callerId]),
                              "call:answer", data.callId, Absent, data.body,
                              Absent))
                ELSE Relayed("call:answer", s, data, EmptyBag)

\* socket.on("call:ice-candidate"): data = {callId, targetUserId, candidate}
CallIceCandidate(s, data) ==
    /\ running
    /\ s \in Connected
    /\ IF data = NoData
       THEN Crash("call:ice-candidate", s)
       ELSE LET userId == sockets[s].userId
                targetUserId == data.target
            IN  IF IsSelf(targetUserId, userId)
                THEN Relayed("call:ice-candidate", s, data, EmptyBag)
                ELSE IF MapHas(userConnections, targetUserId)
                THEN Relayed("call:ice-candidate", s, data,
                         Emit(SocketsWithId(userConnections[targetUserId]),
                              "call:ice-candidate", data.callId, Absent,
                              data.body, Absent))
                ELSE Relayed("call:ice-candidate", s, data, EmptyBag)

\* app.post("/notify/user"): body = {userId, event, data}
NotifyUser(body) ==
    /\ running
    /\ IF body.userId = Absent \/ body.event = Absent
       THEN /\ out' = EmptyBag
            /\ last' = Op("notify/user", NoSocket, body, HttpResult(400, FALSE))
       ELSE IF MapHas(userConnections, body.userId)
       THEN /\ out' = Emit(SocketsWithId(userConnections[body.userId]),
                           body.event, Absent, Absent, body.data, Absent)
            /\ last' = Op("notify/user", NoSocket, body, HttpResult(200, TRUE))
       ELSE /\ out' = EmptyBag
            /\ last' = Op("notify/user", NoSocket, body, HttpResult(200, FALSE))
    /\ UNCHANGED <<userConnections, userRoles, socketUsers, sockets,
                   nextSocket, running, dropped>>

Frame ==
    UNCHANGED <<userConnections, userRoles, socketUsers, sockets,
                nextSocket, running, dropped>>

\* userIds.forEach of POST /notify/users, from index i on: acc carries
\* results, deliveredCount and the events emitted so far
RECURSIVE ForEachUserId(_, _, _, _)
ForEachUserId(userIds, i, body, acc) ==
    IF i > Len(userIds)
    THEN acc
    ELSE LET userId == userIds[i]
         IN  IF MapHas(userConnections, userId)
             THEN ForEachUserId(userIds, i + 1, body,
                    [results |-> MapSet(acc.results, userId, TRUE),
                     deliveredCount |-> acc.deliveredCount + 1,
                     out |-> acc.out (+)
                             Emit(SocketsWithId(userConnections[userId]),
                                  body.event, Absent, Absent, body.data,
                                  Absent)])
             ELSE ForEachUserId(userIds, i + 1, body,
                    [results |-> MapSet(acc.results, userId, FALSE),
                     deliveredCount |-> acc.deliveredCount,
                     out |-> acc.out])

\* app.post("/notify/users"): body = {userIds, event, data}
NotifyUsers(body) ==
    /\ running
    /\ IF ~body.isArray \/ body.event = Absent
       THEN /\ out' = EmptyBag
            /\ last' = Op("notify/users", NoSocket, body, [status |-> 400])
       ELSE LET done == ForEachUserId(body.userIds, 1, body,
                            [results |-> [x \in {} |-> FALSE],
                             deliveredCount |-> 0, out |-> EmptyBag])
            IN  /\ out' = done.out
                /\ last' = Op("notify/users", NoSocket, body,
                              [status |-> 200, results |-> done.results,
                               deliveredCount |-> done.deliveredCount,
                               totalUsers |-> Len(body.userIds)])
    /\ Frame

\* Faulty variant of UsersInRole: the roles are compared as they are.
UsersInRoleExact(role) ==
    Cardinality({u \in DOMAIN userRoles : userRoles[u] = role})

\* Array.from(userRoles.entries()).filter(... toLowerCase ...).length
UsersInRole(role) ==
    Cardinality({u \in DOMAIN userRoles :
                    ToLowerCase(userRoles[u]) = ToLowerCase(role)})

\* app.post("/notify/role"): body = {role, event, data}
NotifyRole(body) ==
    /\ running
    /\ IF body.role = Absent \/ body.event = Absent
       THEN /\ out' = EmptyBag
            /\ last' = Op("notify/role", NoSocket, body, [status |-> 400])
       ELSE /\ out' = Emit(SocketsInRoom(RoleRoom(body.role)), body.event,
                           Absent, Absent, body.data, Absent)
            /\ last' = Op("notify/role", NoSocket, body,
                          [status |-> 200,
                           usersCount |-> UsersInRole(body.role)])
    /\ Frame

\* Faulty variant of AllSockets: only the sockets the forward index names.
AllSocketsRegistered ==
    {s \in Connected : \E u \in DOMAIN userConnections : userConnections[u] = s}

\* io.emit: every connected socket
AllSockets == Connected

\* app.post("/notify/all"): body = {event, data}
NotifyAll(body) ==
    /\ running
    /\ IF body.event = Absent
       THEN /\ out' = EmptyBag
            /\ last' = Op("notify/all", NoSocket, body, [status |-> 400])
       ELSE /\ out' = Emit(AllSockets, body.event, Absent, Absent, body.data,
                           Absent)
            /\ last' = Op("notify/all", NoSocket, body,
                          [status |-> 200,
                           usersCount |-> Cardinality(DOMAIN userConnections)])
    /\ Frame

\* recipientIds.forEach of POST /notify/chat/message, from index i on: acc
\* carries results, deliveredCount and the events emitted so far
RECURSIVE ForEachRecipientId(_, _, _, _)
ForEachRecipientId(recipientIds, i, messageData, acc) ==
    IF i > Len(recipientIds)
    THEN acc
    ELSE LET userId == recipientIds[i]
         IN  IF MapHas(userConnections, userId)
             THEN ForEachRecipientId(recipientIds, i + 1, messageData,
                    [results |-> MapSet(acc.results, userId, TRUE),
                     deliveredCount |-> acc.deliveredCount + 1,
                     out |-> acc.out (+)
                             Emit(SocketsWithId(userConnections[userId]),
                                  "chat:message", Absent, Absent, messageData,
                                  Absent)])
             ELSE ForEachRecipientId(recipientIds, i + 1, messageData,
                    [results |-> MapSet(acc.results, userId, FALSE),
                     deliveredCount |-> acc.deliveredCount,
                     out |-> acc.out])

\* "Also emit to chat room": io.to(`chat-${chatRoomId}`).emit("chat:message")
ChatRoomEmit(body) ==
    Emit(SocketsInRoom(ChatRoom(body.chatRoomId)), "chat:message", Absent,
         Absent, body.messageData, Absent)

\* app.post("/notify/chat/message"): body = {chatRoomId, recipientIds,
\* messageData}.  A recipientIds without forEach throws a TypeError that the
\* error-handling middleware answers with status 500.
NotifyChatMessage(body) ==
    /\ running
    /\ IF body.chatRoomId = Absent \/ ~body.given \/ body.messageData = Absent
       THEN /\ out' = EmptyBag
            /\ last' = Op("notify/chat/message", NoSocket, body,
                          [status |-> 400])
       ELSE IF ~body.isArray
       THEN /\ out' = EmptyBag
            /\ last' = Op("notify/chat/message", NoSocket, body,
                          [status |-> 500])
       ELSE LET done == ForEachRecipientId(body.recipientIds, 1,
                            body.messageData,
                            [results |-> [x \in {} |-> FALSE],
                             deliveredCount |-> 0, out |-> EmptyBag])
            IN  /\ out' = done.out (+) ChatRoomEmit(body)
                /\ last' = Op("notify/chat/message", NoSocket, body,
                              [status |-> 200, results |-> done.results,
                               deliveredCount |-> done.deliveredCount,
                               totalRecipients |-> Len(body.recipientIds)])
    /\ Frame

----------------------------------------------------------------------------
(* Specifications.  Next is the whole server.  The signaling handlers and   *)
(* the REST endpoints read the maps and change none, so each family of      *)
(* claims is checked under the handlers that change state together with the *)
(* handlers the claims are about.                                           *)

\* the whole server
Next ==
    \/ \E a \in Handshakes : Connect(a)
    \/ \E s \in SocketIds : Disconnect(s)
    \/ \E s \in SocketIds, d \in ChatData : ChatJoinRoom(s, d)
    \/ \E s \in SocketIds, d \in ChatData : ChatLeaveRoom(s, d)
    \/ \E s \in SocketIds, d \in ChatData : ChatTyping(s, d)
    \/ \E s \in SocketIds, d \in ChatData : ChatStopTyping(s, d)
    \/ \E s \in SocketIds : Ping(s)
    \/ \E s \in SocketIds, d \in CallData : CallOffer(s, d)
    \/ \E s \in SocketIds, d \in CallData : CallAnswer(s, d)
    \/ \E s \in SocketIds, d \in CallData : CallIceCandidate(s, d)
    \/ \E b \in NotifyUserBodies : NotifyUser(b)
    \/ \E b \in NotifyUsersBodies : NotifyUsers(b)
    \/ \E b \in NotifyRoleBodies : NotifyRole(b)
    \/ \E b \in NotifyAllBodies : NotifyAll(b)
    \/ \E b \in ChatMessageBodies : NotifyChatMessage(b)

Spec == Init /\ [][Next]_vars

\* connection lifecycle, chat rooms and POST /notify/user
NextRegistry ==
    \/ \E a \in Handshakes : Connect(a)
    \/ \E s \in SocketIds : Disconnect(s)
    \/ \E s \in SocketIds, d \in ChatData : ChatJoinRoom(s, d)
    \/ \E s \in SocketIds, d \in ChatData : ChatLeaveRoom(s, d)
    \/ \E b \in NotifyUserBodies : NotifyUser(b)

SpecRegistry == Init /\ [][NextRegistry]_vars

\* connection lifecycle and the three signaling relays
NextSignaling ==
    \/ \E a \in Handshakes : Connect(a)
    \/ \E s \in SocketIds : Disconnect(s)
    \/ \E s \in SocketIds, d \in CallData : CallOffer(s, d)
    \/ \E s \in SocketIds, d \in CallData : CallAnswer(s, d)
    \/ \E s \in SocketIds, d \in CallData : CallIceCandidate(s, d)

SpecSignaling == Init /\ [][NextSignaling]_vars

\* connection lifecycle and the REST broadcasts
NextNotify ==
    \/ \E a \in Handshakes : Connect(a)
    \/ \E s \in SocketIds : Disconnect(s)
    \/ \E b \in NotifyUsersBodies : NotifyUsers(b)
    \/ \E b \in NotifyRoleBodies : NotifyRole(b)
    \/ \E b \in NotifyAllBodies : NotifyAll(b)

SpecNotify == Init /\ [][NextNotify]_vars

\* connection lifecycle and every handler that resolves a userId to a socket
NextResolve ==
    \/ \E a \in Handshakes : Connect(a)
    \/ \E s \in SocketIds : Disconnect(s)
    \/ \E s \in SocketIds, d \in CallData : CallOffer(s, d)
    \/ \E s \in SocketIds, d \in CallData : CallAnswer(s, d)
    \/ \E s \in SocketIds, d \in CallData : CallIceCandidate(s, d)
    \/ \E b \in NotifyUserBodies : NotifyUser(b)

SpecResolve == Init /\ [][NextResolve]_vars

\* connection lifecycle, the chat-room handlers and ping
NextChat ==
    \/ \E a \in Handshakes : Connect(a)
    \/ \E s \in SocketIds : Disconnect(s)
    \/ \E s \in SocketIds, d \in ChatData : ChatJoinRoom(s, d)
    \/ \E s \in SocketIds, d \in ChatData : ChatLeaveRoom(s, d)
    \/ \E s \in SocketIds, d \in ChatData : ChatTyping(s, d)
    \/ \E s \in SocketIds, d \in ChatData : ChatStopTyping(s, d)
    \/ \E s \in SocketIds : Ping(s)

SpecChat == Init /\ [][NextChat]_vars

\* connection lifecycle, chat-room membership and POST /notify/chat/message
NextChatMessage ==
    \/ \E a \in Handshakes : Connect(a)
    \/ \E s \in SocketIds : Disconnect(s)
    \/ \E s \in SocketIds, d \in ChatData : ChatJoinRoom(s, d)
    \/ \E s \in SocketIds, d \in ChatData : ChatLeaveRoom(s, d)
    \/ \E b \in ChatMessageBodies : NotifyChatMessage(b)

SpecChatMessage == Init /\ [][NextChatMessage]_vars

----------------------------------------------------------------------------
(* Properties of the registry and of POST /notify/user (SpecRegistry)       *)

\* a socket whose disconnect has been handled
Disconnected(c) == c \in SocketIds /\ c < nextSocket /\ c \notin Connected

\* every group name the handlers can build
AllRooms ==
    {RoleRoom(r) : r \in {"Driver", "driver", "Guest"}}
        \cup {UserRoom(u) : u \in UserIds}
        \cup {ChatRoom(r) : r \in ChatRooms}

\* the connection handler ran last, for a userId whose registered socket
\* (last.res.prev) is still connected
ReRegistered ==
    /\ last.op = "connect"
    /\ last.res.prev # NoSocket
    /\ last.res.prev \in Connected

\* C1: the reverse index maps connection c to user u if and only if the
\* forward index maps user u to connection c.
RegistryIndexConsistency ==
    \A c \in SocketIds, u \in UserIds :
        (MapHas(socketUsers, c) /\ socketUsers[c] = u)
            <=> (MapHas(userConnections, u) /\ userConnections[u] = c)

\* C2: right after a connection c2 connects with a userId that is registered
\* to a still-live connection c1, the forward index resolves the userId to c2
\* and the role index holds the role c2 presented.
ReRegistrationMovesForward ==
    ReRegistered =>
        /\ last.res.prev # last.socket
        /\ MapHas(userConnections, last.res.userId)
        /\ userConnections[last.res.userId] = last.socket
        /\ MapHas(userRoles, last.res.userId)
        /\ userRoles[last.res.userId] = sockets[last.socket].role
        /\ sockets[last.socket].role =
              (IF last.data.role = Absent THEN "Guest" ELSE last.data.role)

\* C2 witness: a re-registration under a role other than the first one
ReRegisteredWithOtherRole ==
    /\ ReRegistered
    /\ sockets[last.res.prev].role # sockets[last.socket].role
    /\ userRoles[last.res.userId] = sockets[last.socket].role

\* C3: after c2 registers a userId that was registered to the still-live c1,
\* the reverse index has no entry for c1.
ReRegistrationDiscardsReverse ==
    ReRegistered => ~MapHas(socketUsers, last.res.prev)

\* C4: once the disconnect of a connection c that registered user u has been
\* handled, c has no reverse entry and is in no group, and until u connects
\* again u has no forward entry and POST /notify/user for u answers
\* delivered=false and emits nothing.
DisconnectCleanup ==
    /\ \A c \in SocketIds :
          Disconnected(c) =>
              /\ ~MapHas(socketUsers, c)
              /\ \A room \in AllRooms : c \notin SocketsInRoom(room)
    /\ \A u \in dropped : ~MapHas(userConnections, u)
    /\ (last.op = "notify/user" /\ last.res.status = 200
            /\ last.data.userId \in dropped)
          => (last.res.delivered = FALSE /\ out = EmptyBag)

\* C4 witness: a send to a user whose connection had joined a chat room and
\* then disconnected, while another connection is still up
SendAfterDisconnect ==
    /\ last.op = "notify/user"
    /\ last.res.status = 200
    /\ last.data.userId \in dropped
    /\ last.res.delivered = FALSE
    /\ \E c \in SocketIds : Disconnected(c)
    /\ \E s \in Connected : ChatRoom("r1") \in sockets[s].rooms

\* C5: for every userId with at least one connected connection, the personal
\* group user-<userId> contains exactly one connection.
PersonalGroupExactlyOne ==
    \A u \in UserIds :
        (\E s \in Connected : sockets[s].userId = u)
            => Cardinality(SocketsInRoom(UserRoom(u))) = 1

\* C6 (state part): POST /notify/user answers delivered=true exactly when the
\* forward index has an entry for the userId; the event then reaches the one
\* resolved connection and no other; otherwise nothing is emitted.
SendToUserReach ==
    (last.op = "notify/user" /\ last.res.status = 200) =>
        /\ last.res.delivered <=> MapHas(userConnections, last.data.userId)
        /\ IF MapHas(userConnections, last.data.userId)
           THEN /\ userConnections[last.data.userId] \in Connected
                /\ out = SetToBag({Msg(userConnections[last.data.userId],
                                       last.data.event, Absent, Absent,
                                       last.data.data, Absent)})
                /\ BagCardinality(out) = 1
           ELSE out = EmptyBag

\* C6 (step part): POST /notify/user changes no registry or group state.
SendToUserFrame ==
    (\E b \in NotifyUserBodies : NotifyUser(b)) =>
        UNCHANGED <<userConnections, userRoles, socketUsers, sockets>>

\* C6: POST /notify/user answers delivered=true exactly when the forward index
\* has an entry for the userId, in which case the event is emitted to that one
\* resolved connection and to no other; for a userId that was never registered
\* or whose connection has disconnected it answers delivered=false, emits
\* nothing, and it never changes registry or group state.
SendToUserResultAndReach ==
    [] SendToUserReach /\ [][SendToUserFrame]_vars

\* C6 witness: a delivered send while a second connection is up
SendToUserDelivered ==
    /\ last.op = "notify/user"
    /\ last.res.delivered
    /\ Cardinality(Connected) >= 2
    /\ BagCardinality(out) = 1

----------------------------------------------------------------------------
(* Properties of the signaling relay (SpecSignaling)                        *)

SignalingEvents == {"call:offer", "call:answer", "call:ice-candidate"}

\* a signaling handler ran last and got a payload
Signaled(op) == last.op = op /\ last.data # NoData

\* the userId of the socket the last handler ran on
SenderUserId == sockets[last.socket].userId

\* C7: a relayed call:offer, call:answer or call:ice-candidate is never
\* delivered to the connection that sent it, nor to any connection whose
\* userId is the sender's userId.
NoEchoOfSignaling ==
    \A m \in BagToSet(out) :
        m.ev \in SignalingEvents =>
            /\ last.op \in SignalingEvents
            /\ m.to # last.socket
            /\ m.to \in Connected
            /\ sockets[m.to].userId # SenderUserId

\* C7 witness: an answer is relayed while a second connection of the sender's
\* userId is up
AnswerRelayedBesideOrphan ==
    /\ Signaled("call:answer")
    /\ \E m \in BagToSet(out) : m.ev = "call:answer"
    /\ \E s \in Connected : s # last.socket /\ sockets[s].userId = SenderUserId

\* C8: a call:offer whose receiverId is the sender's userId produces exactly
\* one outbound event, call:error "Cannot call yourself" with the offer's
\* callId, to the sending connection.
SelfTargetedOffer ==
    (Signaled("call:offer") /\ last.data.target = SenderUserId) =>
        /\ out = SetToBag({Msg(last.socket, "call:error", last.data.callId,
                               Absent, Absent, "Cannot call yourself")})
        /\ BagCardinality(out) = 1

\* C8 witness: a self-targeted offer from a connection whose userId resolves
\* to a different connection
SelfOfferFromOrphan ==
    /\ Signaled("call:offer")
    /\ last.data.target = SenderUserId
    /\ MapHas(userConnections, SenderUserId)
    /\ userConnections[SenderUserId] # last.socket
    /\ BagCardinality(out) = 1

\* C9: when receiverId differs from the sender's userId and the forward index
\* resolves it, the resolved connection receives exactly one call:offer with
\* the same callId and offer and callerId the sender's userId, and the sender
\* receives nothing.
OfferToConnectedReceiver ==
    (Signaled("call:offer") /\ last.data.target # SenderUserId
        /\ MapHas(userConnections, last.data.target)) =>
        /\ out = SetToBag({Msg(userConnections[last.data.target], "call:offer",
                               last.data.callId, SenderUserId, last.data.body,
                               Absent)})
        /\ BagCardinality(out) = 1
        /\ \A m \in BagToSet(out) : m.to # last.socket

\* C9 witness: an offer delivered while a third connection is up
OfferDelivered ==
    /\ Signaled("call:offer")
    /\ \E m \in BagToSet(out) : m.ev = "call:offer" /\ m.callId = "c2"
    /\ Cardinality(Connected) >= 3

\* C10: when receiverId differs from the sender's userId and the forward index
\* has no entry for it, the sender's connection receives exactly one
\* call:error "Receiver not connected" with the offer's callId and no other
\* connection receives anything.
OfferToAbsentReceiver ==
    (Signaled("call:offer") /\ last.data.target # SenderUserId
        /\ ~MapHas(userConnections, last.data.target)) =>
        /\ out = SetToBag({Msg(last.socket, "call:error", last.data.callId,
                               Absent, Absent, "Receiver not connected")})
        /\ BagCardinality(out) = 1

\* C10 witness: an offer to an unregistered userId while another connection is
\* up
OfferToNobody ==
    /\ Signaled("call:offer")
    /\ last.data.target # SenderUserId
    /\ ~MapHas(userConnections, last.data.target)
    /\ Cardinality(Connected) >= 2
    /\ BagCardinality(out) = 1

SilentEvents == {"call:answer", "call:ice-candidate"}

\* C11 (state part): an answer or candidate whose target is the sender's own
\* userId or has no forward entry emits nothing at all; any other reaches the
\* target's resolved connection exactly once.
SilentRejectionReach ==
    (last.op \in SilentEvents /\ last.data # NoData) =>
        IF last.data.target = SenderUserId
              \/ ~MapHas(userConnections, last.data.target)
        THEN out = EmptyBag
        ELSE /\ out = SetToBag({Msg(userConnections[last.data.target], last.op,
                                    last.data.callId, Absent, last.data.body,
                                    Absent)})
             /\ BagCardinality(out) = 1

\* C11 (step part): an answer or candidate that carries a payload changes no
\* registry or group state.
SilentRejectionFrame ==
    (\E s \in SocketIds, d \in CallData \ {NoData} :
          CallAnswer(s, d) \/ CallIceCandidate(s, d))
        => UNCHANGED <<userConnections, userRoles, socketUsers, sockets>>

\* C11: for call:answer and call:ice-candidate, a target equal to the sender's
\* userId or not resolvable in the registry yields zero events (no call:error
\* to the sender either) and no registry or group change; otherwise exactly
\* one call:answer / call:ice-candidate reaches the target's resolved
\* connection.
SilentRejection ==
    [] SilentRejectionReach /\ [][SilentRejectionFrame]_vars

\* C11 witness: an answer addressed to the sender's own userId, which resolves
\* to another connection, leaves nothing emitted
SelfAnswerDropped ==
    /\ Signaled("call:answer")
    /\ last.data.target = SenderUserId
    /\ MapHas(userConnections, SenderUserId)
    /\ userConnections[SenderUserId] # last.socket
    /\ out = EmptyBag

----------------------------------------------------------------------------
(* Properties of the REST broadcasts (SpecNotify)                           *)

\* a REST endpoint ran last and accepted its body
Accepted(op) == last.op = op /\ last.res.status = 200

\* C12: the results map of POST /notify/users has exactly deliveredCount
\* true-valued entries, and deliveredCount <= totalUsers, the length of
\* userIds.
SendToUsersAccounting ==
    Accepted("notify/users") =>
        /\ Cardinality({u \in DOMAIN last.res.results : last.res.results[u]})
              = last.res.deliveredCount
        /\ last.res.deliveredCount <= last.res.totalUsers
        /\ last.res.totalUsers = Len(last.data.userIds)

\* two roles that differ at most in the case of their letters
SameRoleIgnoringCase(a, b) ==
    \/ a = b
    \/ {a, b} \subseteq {"Driver", "driver", "DRIVER"}
    \/ {a, b} \subseteq {"Guest", "guest"}

\* C13: POST /notify/role emits the event once to exactly the connected
\* connections whose connect-time role is the requested role letter for
\* letter, and answers usersCount = the number of userIds of the role index
\* whose stored role is the requested role ignoring case.
SendToRoleDeliveryAndCount ==
    Accepted("notify/role") =>
        /\ out = SetToBag({Msg(s, last.data.event, Absent, Absent,
                               last.data.data, Absent) :
                            s \in {c \in Connected :
                                      sockets[c].role = last.data.role}})
        /\ last.res.usersCount =
              Cardinality({u \in DOMAIN userRoles :
                              SameRoleIgnoringCase(userRoles[u], last.data.role)})

\* C13 witness: u1 alone, connected as "Driver", and a broadcast to "driver":
\* one user counted, nobody reached
DriverCountedInLowerCase ==
    /\ Accepted("notify/role")
    /\ last.data.role = "driver"
    /\ DOMAIN userConnections = {"u1"}
    /\ userRoles["u1"] = "Driver"
    /\ Cardinality(Connected) = 1
    /\ last.res.usersCount = 1
    /\ out = EmptyBag

\* C14: POST /notify/all delivers the event exactly once to every connection
\* that is connected and to no other, and answers usersCount = the number of
\* userIds in the forward index.
SendToAllDeliveryAndCount ==
    Accepted("notify/all") =>
        /\ out = SetToBag({Msg(s, last.data.event, Absent, Absent,
                               last.data.data, Absent) : s \in Connected})
        /\ \A c \in SocketIds :
              Disconnected(c) => \A m \in BagToSet(out) : m.to # c
        /\ last.res.usersCount = Cardinality(DOMAIN userConnections)

\* C14 witness: a broadcast that reaches two connections of one user while a
\* third connection has already disconnected
BroadcastToTwoOfOneUser ==
    /\ Accepted("notify/all")
    /\ BagCardinality(out) = 2
    /\ last.res.usersCount = 1
    /\ \E c \in SocketIds : Disconnected(c)

----------------------------------------------------------------------------
(* Properties of the process and of the registry across disconnects         *)

\* C15: whatever event or request arrives, with any payload or none, a fault
\* raised while handling it is caught: the process keeps running (and so
\* keeps the registry and group state of the other connections).
FaultsNeverCrash == running

\* C16: the disconnect of a connection leaves alone every user whose forward
\* entry names another, still connected, connection: that user keeps the
\* forward entry and the role.
DisconnectSparesOthers ==
    [][\A s \in SocketIds, u \in UserIds :
          (Disconnect(s) /\ MapHas(userConnections, u)
              /\ userConnections[u] # s /\ userConnections[u] \in Connected)
            => /\ MapHas(userConnections', u)
               /\ userConnections'[u] = userConnections[u]
               /\ MapHas(userRoles', u)
               /\ userRoles'[u] = userRoles[u]]_vars

\* C17: a forward entry u -> c names a connection c that is connected, that
\* presented userId u, that the reverse index maps to u, and whose user has a
\* role entry; hence every emitted event goes to a connected socket and a send
\* that answers delivered=true has reached one.
NoStaleForwardPointer ==
    /\ \A u \in DOMAIN userConnections :
          LET c == userConnections[u]
          IN  /\ c \in Connected
              /\ sockets[c].userId = u
              /\ MapHas(socketUsers, c)
              /\ socketUsers[c] = u
              /\ MapHas(userRoles, u)
    /\ \A m \in BagToSet(out) : m.to \in Connected
    /\ (last.op = "notify/user" /\ last.res.status = 200 /\ last.res.delivered)
          => \E m \in BagToSet(out) : m.to \in Connected
    /\ \A c \in SocketIds :
          Disconnected(c) => \A u \in DOMAIN userConnections :
                                 userConnections[u] # c

\* C17 witness: an offer is relayed after some connection has disconnected and
\* while a user has two connections up
RelayAfterDisconnect ==
    /\ Signaled("call:offer")
    /\ \E m \in BagToSet(out) : m.ev = "call:offer"
    /\ \E c \in SocketIds : Disconnected(c)
    /\ \E u \in DOMAIN userConnections : sockets[userConnections[u]].userId = u

----------------------------------------------------------------------------
(* Properties of the chat-room handlers (SpecChat)                          *)

\* the event each chat handler sends to the room
ChatNotice ==
    [x \in {"chat:join-room", "chat:leave-room", "chat:typing",
            "chat:stop-typing"} |->
        CASE x = "chat:join-room" -> "chat:user-joined"
          [] x = "chat:leave-room" -> "chat:user-left"
          [] x = "chat:typing" -> "chat:user-typing"
          [] x = "chat:stop-typing" -> "chat:user-stop-typing"]

\* C18 (state part): the notice of a chat handler reaches, once each, the
\* members of the room other than the sending connection, and never the
\* sender; after a join the sender is a member, after a leave it is not.
ChatNoticeReach ==
    (last.op \in DOMAIN ChatNotice /\ last.data # NoData) =>
        LET room == ChatRoom(last.data.chatRoomId)
        IN  /\ out = SetToBag({Msg(t, ChatNotice[last.op], Absent,
                                   SenderUserId, last.data.chatRoomId, Absent) :
                                t \in SocketsInRoom(room) \ {last.socket}})
            /\ \A m \in BagToSet(out) : m.to # last.socket
            /\ last.op = "chat:join-room" => last.socket \in SocketsInRoom(room)
            /\ last.op = "chat:leave-room" =>
                  last.socket \notin SocketsInRoom(room)

\* C18 (step part): join and leave change the sender's membership of that one
\* room and nothing else, and change nothing when repeated; typing,
\* stop-typing and ping change no registry or group state.
ChatFrame ==
    /\ \A s \in SocketIds, d \in ChatData \ {NoData} :
          /\ ChatJoinRoom(s, d) =>
                /\ sockets' = [sockets EXCEPT
                                 ![s].rooms = @ \cup {ChatRoom(d.chatRoomId)}]
                /\ ChatRoom(d.chatRoomId) \in sockets[s].rooms
                      => sockets' = sockets
          /\ ChatLeaveRoom(s, d) =>
                /\ sockets' = [sockets EXCEPT
                                 ![s].rooms = @ \ {ChatRoom(d.chatRoomId)}]
                /\ ChatRoom(d.chatRoomId) \notin sockets[s].rooms
                      => sockets' = sockets
          /\ (ChatJoinRoom(s, d) \/ ChatLeaveRoom(s, d))
                => UNCHANGED <<userConnections, userRoles, socketUsers>>
          /\ (ChatTyping(s, d) \/ ChatStopTyping(s, d) \/ Ping(s))
                => UNCHANGED <<userConnections, userRoles, socketUsers,
                               sockets>>

\* C18: for chat:join-room, chat:leave-room, chat:typing and chat:stop-typing
\* sent by connection c for room r, the notice is delivered exactly once to
\* every member of chat-<r> other than c and never to c; join makes c a
\* member and leave removes it, both idempotent; typing, stop-typing and ping
\* change no registry or group state.
ChatNotificationsExcludeSender ==
    [] ChatNoticeReach /\ [][ChatFrame]_vars

\* C18 witness: a member of the room types and the two other members are
\* notified
TypingReachesTwoOthers ==
    /\ last.op = "chat:typing"
    /\ last.data # NoData
    /\ last.socket \in SocketsInRoom(ChatRoom("r1"))
    /\ BagCardinality(out) = 2

----------------------------------------------------------------------------
(* Presence and role counts                                                 *)

\* C19: whenever no connection is connected, the forward, reverse and role
\* indices are empty and every group is empty; and the forward index and the
\* role index always have the same userIds as keys.
NoLeakedPresence ==
    /\ Connected = {} =>
          /\ DOMAIN userConnections = {}
          /\ DOMAIN socketUsers = {}
          /\ DOMAIN userRoles = {}
          /\ \A room \in AllRooms : SocketsInRoom(room) = {}
    /\ DOMAIN userConnections = DOMAIN userRoles

\* C19 witness: the last of three connections of two users has just
\* disconnected
AllGone ==
    /\ running
    /\ last.op = "disconnect"
    /\ Connected = {}
    /\ nextSocket > 3
    /\ Cardinality(dropped) = 2

\* C20: when every connection presented its role in the very casing of the
\* role passed to POST /notify/role, usersCount is the number of connections
\* that receive the broadcast.
RoleCountMatchesReach ==
    (Accepted("notify/role")
        /\ \A s \in Connected :
              SameRoleIgnoringCase(sockets[s].role, last.data.role)
                  => sockets[s].role = last.data.role)
      => last.res.usersCount = BagCardinality(out)

----------------------------------------------------------------------------
(* Properties of POST /notify/chat/message (SpecChatMessage)                *)

\* the elements of an array, and whether the array repeats none
Elements(seq) == {seq[i] : i \in DOMAIN seq}
Distinct(seq) == Cardinality(Elements(seq)) = Len(seq)

\* the number of chat:message events a connection received from the last
\* handler
Received(c) ==
    LET m == Msg(c, "chat:message", Absent, Absent, last.data.messageData,
                 Absent)
    IN  CopiesIn(m, out)

\* C21: for one POST /notify/chat/message with chatRoomId r and recipientIds
\* of distinct userIds, every connection receives chat:message at most once,
\* also a connection that is both the resolved connection of a recipient and
\* a member of chat-<r>; and deliveredCount is the number of listed
\* recipients that the forward index resolves.
ChatMessageAtMostOnce ==
    (Accepted("notify/chat/message") /\ Distinct(last.data.recipientIds)) =>
        /\ \A c \in SocketIds : Received(c) <= 1
        /\ \A m \in BagToSet(out) : m.ev = "chat:message" /\ m.to \in Connected
        /\ last.res.deliveredCount =
              Cardinality({u \in Elements(last.data.recipientIds) :
                              MapHas(userConnections, u)})

====
